---- MODULE Spec2Model ----
(***************************************************************************)
(* A model of the jira_ticket_manager command line tools: the jirals list  *)
(* command, the jiracat view command, the JiraManager controller they      *)
(* share, and the deprecated single-file CLI (deprecated/main.py).          *)
(*                                                                         *)
(* One behaviour is one invocation.  Python strings that the code takes    *)
(* apart or puts together (the filter arguments and the JQL query) are     *)
(* sequences of one-character strings; everything the process emits is     *)
(* appended, in order, to trace.                                           *)
(***************************************************************************)
EXTENDS Integers, Sequences, FiniteSets, TLC

VARIABLES prog, pc, creds, attempts, args, locals, trace, exitCode, result

vars == <<prog, pc, creds, attempts, args, locals, trace, exitCode, result>>

(***************************************************************************)
(* Bounds of the model.                                                    *)
(***************************************************************************)
\* longest --status / --ne-status / --tags argument that is enumerated
MaxLen == 3
\* largest batch of issues handed to a renderer
MaxIssues == 2
\* connection attempts after which the model stops retrying
MaxAttempts == 1

\* the longest generated description, in tokens
MaxDesc == 5

(***************************************************************************)
(* Python strings.                                                         *)
(***************************************************************************)
\* None where a str is expected; it is falsy like the empty string
NoneStr == <<"<None>">>

Truthy(s) == s # NoneStr /\ s # <<>>

Alphabet == {"a", "b", " ", ","}

Whitespace == {" ", "\t", "\n"}

RECURSIVE StrUpTo(_)
StrUpTo(n) ==
    IF n = 0 THEN {<<>>}
    ELSE LET S == StrUpTo(n - 1)
         IN  S \cup {Append(s, c) : s \in {t \in S : Len(t) = n - 1}, c \in Alphabet}

\* str.split(sep) for a one-character separator: always at least one piece
RECURSIVE split(_, _)
split(s, sep) ==
    IF \A i \in DOMAIN s : s[i] # sep THEN <<s>>
    ELSE LET k == CHOOSE i \in DOMAIN s : s[i] = sep /\ \A j \in 1..(i - 1) : s[j] # sep
         IN  <<SubSeq(s, 1, k - 1)>> \o split(SubSeq(s, k + 1, Len(s)), sep)

\* str.strip(): leading and trailing whitespace removed
RECURSIVE strip(_)
strip(s) ==
    IF s = <<>> THEN s
    ELSE IF s[1] \in Whitespace THEN strip(Tail(s))
    ELSE IF s[Len(s)] \in Whitespace THEN strip(SubSeq(s, 1, Len(s) - 1))
    ELSE s

\* sep.join(parts)
RECURSIVE join(_, _)
join(sep, parts) ==
    IF parts = <<>> THEN <<>>
    ELSE IF Len(parts) = 1 THEN parts[1]
    ELSE parts[1] \o sep \o join(sep, Tail(parts))

\* f'"{s}"'
quoted(s) == <<"\"">> \o s \o <<"\"">>

(***************************************************************************)
(* String literals of the source.                                          *)
(***************************************************************************)
ASSIGNEE_CLAUSE ==
    <<"a","s","s","i","g","n","e","e"," ","="," ","c","u","r","r","e","n","t","U","s","e","r","(",")">>

REPORTER_CLAUSE ==
    <<"r","e","p","o","r","t","e","r"," ","="," ","c","u","r","r","e","n","t","U","s","e","r","(",")">>

PROJECT_PREFIX ==
    <<"p","r","o","j","e","c","t"," ","="," ">>

STATUS_IN_PREFIX ==
    <<"s","t","a","t","u","s"," ","I","N"," ","(">>

STATUS_NOT_IN_PREFIX ==
    <<"s","t","a","t","u","s"," ","N","O","T"," ","I","N"," ","(">>

LABELS_IN_PREFIX ==
    <<"l","a","b","e","l","s"," ","I","N"," ","(">>

AND_SEP ==
    <<" ","A","N","D"," ">>

ORDER_BY_CREATED ==
    <<" ","O","R","D","E","R"," ","B","Y"," ","c","r","e","a","t","e","d"," ","D","E","S","C">>

ORDER_BY_UPDATED ==
    <<" ","O","R","D","E","R"," ","B","Y"," ","u","p","d","a","t","e","d"," ","D","E","S","C">>

DEFAULT_JQL ==
    <<"a","s","s","i","g","n","e","e"," ","="," ","c","u","r","r","e","n","t","U","s","e","r","(",")"," ","O","R","D","E","R"," ","B","Y"," ","c","r","e","a","t","e","d"," ","D","E","S","C">>

DEPRECATED_DEFAULT_JQL ==
    <<"a","s","s","i","g","n","e","e"," ","="," ","c","u","r","r","e","n","t","U","s","e","r","(",")"," ","O","R","D","E","R"," ","B","Y"," ","u","p","d","a","t","e","d"," ","D","E","S","C">>

OPS ==
    <<"O","P","S">>

TODO_INPROGRESS ==
    <<"T","o"," ","D","o",","," ","I","n"," ","P","r","o","g","r","e","s","s">>

EXAMPLE_QUERY ==
    <<"p","r","o","j","e","c","t"," ","="," ","O","P","S"," ","A","N","D"," ","s","t","a","t","u","s"," ","I","N"," ","(","\"","T","o"," ","D","o","\"",","," ","\"","I","n"," ","P","r","o","g","r","e","s","s","\"",")"," ","O","R","D","E","R"," ","B","Y"," ","c","r","e","a","t","e","d"," ","D","E","S","C">>


(***************************************************************************)
(* What the process emits.  ch is "out" (sys.stdout, the primary channel), *)
(* "err" (sys.stderr, the diagnostic channel), "remote" (a request to the  *)
(* JIRA server) or "browser" (webbrowser.open).  kind names the fixed part *)
(* of the message, text and n carry its variable part.                     *)
(***************************************************************************)
Ev(ch, kind, text, n) == [ch |-> ch, kind |-> kind, text |-> text, n |-> n]

Out(kind, text) == Ev("out", kind, text, 0)

Err(kind, text) == Ev("err", kind, text, 0)

Remote(kind, text, n) == Ev("remote", kind, text, n)

\* str(e) of an exception, kept as one token
Exc(name) == <<name>>

(***************************************************************************)
(* jirals.parse_jql and the query main() combines from it.                 *)
(***************************************************************************)
\* ', '.join([f'"{v}"' for v in s.split(',')]): the values are not stripped
QuotedList_NoStrip(s) ==
    LET vs == split(s, ",")
    IN  join(<<",", " ">>, [i \in DOMAIN vs |-> quoted(vs[i])])

\* ', '.join([f'"{v.strip()}"' for v in s.split(',')])
QuotedList(s) ==
    LET vs == split(s, ",")
    IN  join(<<",", " ">>, [i \in DOMAIN vs |-> quoted(strip(vs[i]))])

\* parse_jql with the project clause appended after the status clauses
parse_jql_Reordered(a) ==
       (IF a.my_issues THEN <<ASSIGNEE_CLAUSE>> ELSE <<>>)
    \o (IF a.my_reported THEN <<REPORTER_CLAUSE>> ELSE <<>>)
    \o (IF Truthy(a.status)
        THEN <<STATUS_IN_PREFIX \o QuotedList(a.status) \o <<")">> >> ELSE <<>>)
    \o (IF Truthy(a.ne_status)
        THEN <<STATUS_NOT_IN_PREFIX \o QuotedList(a.ne_status) \o <<")">> >> ELSE <<>>)
    \o (IF Truthy(a.project) THEN <<PROJECT_PREFIX \o a.project>> ELSE <<>>)
    \o (IF Truthy(a.tags)
        THEN <<LABELS_IN_PREFIX \o QuotedList(a.tags) \o <<")">> >> ELSE <<>>)

\* the list jql_parts that parse_jql(args) returns
parse_jql(a) ==
       (IF a.my_issues THEN <<ASSIGNEE_CLAUSE>> ELSE <<>>)
    \o (IF a.my_reported THEN <<REPORTER_CLAUSE>> ELSE <<>>)
    \o (IF Truthy(a.project) THEN <<PROJECT_PREFIX \o a.project>> ELSE <<>>)
    \o (IF Truthy(a.status)
        THEN <<STATUS_IN_PREFIX \o QuotedList(a.status) \o <<")">> >> ELSE <<>>)
    \o (IF Truthy(a.ne_status)
        THEN <<STATUS_NOT_IN_PREFIX \o QuotedList(a.ne_status) \o <<")">> >> ELSE <<>>)
    \o (IF Truthy(a.tags)
        THEN <<LABELS_IN_PREFIX \o QuotedList(a.tags) \o <<")">> >> ELSE <<>>)

\* the override is merged with the built clauses instead of replacing them
jirals_jql_Merged(jql_parts, a) ==
    IF jql_parts # <<>>
    THEN join(AND_SEP, jql_parts \o (IF Truthy(a.jql) THEN <<a.jql>> ELSE <<>>))
         \o ORDER_BY_CREATED
    ELSE a.jql

\* "Combine or used provided JQL"
jirals_jql(jql_parts, a) ==
    IF jql_parts # <<>> /\ ~Truthy(a.jql)
    THEN join(AND_SEP, jql_parts) \o ORDER_BY_CREATED
    ELSE a.jql

(***************************************************************************)
(* The arguments enumerated for the list commands.                         *)
(***************************************************************************)
\* the value of a multi-value argument that is explored in full
RichInputs == StrUpTo(MaxLen) \cup {NoneStr, TODO_INPROGRESS}

\* the values the other two multi-value arguments take meanwhile
SampleInputs == {NoneStr, <<"a", ",", " ", "b">>}

MultiArgs ==
    {[status |-> r, ne_status |-> s, tags |-> t] :
        r \in RichInputs, s \in SampleInputs, t \in SampleInputs}
    \cup {[status |-> s, ne_status |-> r, tags |-> t] :
        r \in RichInputs, s \in SampleInputs, t \in SampleInputs}
    \cup {[status |-> s, ne_status |-> t, tags |-> r] :
        r \in RichInputs, s \in SampleInputs, t \in SampleInputs}

\* the arguments of a direct call of parse_jql
ParseArgs ==
    {[my_issues |-> mi, my_reported |-> mr, project |-> p, jql |-> q,
      status |-> m.status, ne_status |-> m.ne_status, tags |-> m.tags, max |-> 50] :
        mi \in BOOLEAN, mr \in BOOLEAN, p \in {NoneStr, <<>>, OPS},
        q \in {NoneStr, <<>>, <<"q">>}, m \in MultiArgs}

\* the arguments of a run of the list command
ListArgs ==
    {a \in ParseArgs :
        /\ a.status \in SampleInputs \cup {TODO_INPROGRESS}
        /\ a.ne_status \in SampleInputs
        /\ a.tags \in SampleInputs}

(***************************************************************************)
(* Issues as the jira library hands them over.  has is the set of          *)
(* attributes issue.fields defines (hasattr), null the attributes whose    *)
(* value is None; the other fields hold the values.  A timestamp is the    *)
(* wire string: wf says whether its first 19 characters parse as           *)
(* %Y-%m-%dT%H:%M:%S, head is the text before its first 'T'.               *)
(***************************************************************************)
FieldNames ==
    {"summary", "status", "created", "updated", "assignee", "reporter", "creator",
     "priority", "parent", "issuetype", "customfield_12432", "labels", "description",
     "comment"}

OptionalFields ==
    {"assignee", "reporter", "creator", "priority", "parent", "labels", "description",
     "customfield_12432", "comment"}

Timestamp(date, hm) == [wf |-> TRUE, date |-> date, hm |-> hm, head |-> date]

BadTimestamp == [wf |-> FALSE, date |-> "", hm |-> "", head |-> "yesterday"]

ShortSummary == <<"fix", "login">>

LongSummary == <<"telemetry", "telemetry", "telemetry", "telemetry", "telemetry", "telemetry">>

Comment1 ==
    [author |-> "Ann", hasDisplayName |-> TRUE, hasCreated |-> TRUE,
     created |-> Timestamp("2024-03-01", "08:00"), body |-> <<"looks", " ", "good">>]

Comment2 ==
    [author |-> "", hasDisplayName |-> FALSE, hasCreated |-> FALSE,
     created |-> BadTimestamp, body |-> <<"ping">>]

\* an issue with every field present
FullIssue(k, s) ==
    [key |-> k, has |-> FieldNames, null |-> {},
     summary |-> s, status |-> "To Do",
     created |-> Timestamp("2024-01-02", "10:30"),
     updated |-> Timestamp("2024-02-03", "11:45"),
     assignee |-> "Ann", reporter |-> "Bob", creator |-> "Cy", priority |-> "High",
     parent |-> "OPS-0", issuetype |-> "Bug", customfield_12432 |-> <<"BrandA", "BrandB">>,
     labels |-> <<"bug", "ui">>, description |-> <<"some", " ", "text">>,
     comment |-> <<Comment1, Comment2>>]

Missing(issue, fs) == [issue EXCEPT !.has = @ \ fs]

Nulled(issue, fs) == [issue EXCEPT !.null = @ \cup fs]

Emptied(issue, fs) ==
    [issue EXCEPT !.labels = IF "labels" \in fs THEN <<>> ELSE @,
                  !.description = IF "description" \in fs THEN <<>> ELSE @,
                  !.customfield_12432 = IF "customfield_12432" \in fs THEN <<>> ELSE @,
                  !.comment = IF "comment" \in fs THEN <<>> ELSE @]

\* hasattr(issue.fields, f)
hasattr(issue, f) == f \in issue.has

\* bool(issue.fields.f), for an attribute that exists
truthy(issue, f) ==
    /\ f \notin issue.null
    /\ f \in {"labels", "description", "customfield_12432", "summary"} => issue[f] # <<>>

SeqFields == {"labels", "description", "customfield_12432", "comment"}

\* the issues whose optional parts are all absent, each of them either by the
\* attribute not being there, by its value being None, or (a list, a text) by
\* being empty
AbsentIssues ==
    {Emptied(Nulled(Missing(FullIssue("OPS-7", ShortSummary), m),
                    OptionalFields \ (m \cup e)), e) :
        m \in SUBSET OptionalFields, e \in SUBSET SeqFields}

\* issues with some optional parts absent and the others present
PartialIssues ==
    {Nulled(FullIssue("OPS-8", ShortSummary), n) : n \in SUBSET OptionalFields}
    \cup {Missing(FullIssue("OPS-8", ShortSummary), m) : m \in SUBSET OptionalFields}

\* issues that lack one of the fields the server guarantees
MalformedIssues ==
    {Nulled(FullIssue("OPS-4", ShortSummary), {"status"}),
     Missing(FullIssue("OPS-4", ShortSummary), {"status"}),
     Nulled(FullIssue("OPS-5", ShortSummary), {"created"}),
     [FullIssue("OPS-5", ShortSummary) EXCEPT !.created = BadTimestamp],
     [FullIssue("OPS-6", ShortSummary) EXCEPT !.updated = BadTimestamp]}

\* the issues a batch is made of
BatchIssues ==
    {FullIssue("OPS-1", ShortSummary),
     FullIssue("OPS-2", LongSummary),
     Nulled(Missing(FullIssue("OPS-3", ShortSummary), {"parent", "comment"}),
            OptionalFields \ {"parent", "comment", "labels"}),
     Nulled(FullIssue("OPS-4", ShortSummary), {"status"}),
     [FullIssue("OPS-5", ShortSummary) EXCEPT !.created = BadTimestamp]}

RECURSIVE SeqsUpTo(_, _)
SeqsUpTo(S, n) ==
    IF n = 0 THEN {<<>>}
    ELSE LET T == SeqsUpTo(S, n - 1)
         IN  T \cup {Append(t, x) : t \in {u \in T : Len(u) = n - 1}, x \in S}

\* what a renderer is handed: None, or a list of issues
NoIssues == [isNone |-> TRUE, items |-> <<>>]

IssueList(items) == [isNone |-> FALSE, items |-> items]

(***************************************************************************)
(* jirals.print_issues                                                     *)
(***************************************************************************)
SummaryWidth == 50

RECURSIVE JoinedLen(_)
JoinedLen(words) ==
    IF words = <<>> THEN 0
    ELSE IF Len(words) = 1 THEN Len(words[1])
    ELSE Len(words[1]) + 1 + JoinedLen(Tail(words))

Words(ws) == join(<<" ">>, [i \in DOMAIN ws |-> <<ws[i]>>])

\* textwrap.shorten(text, width=width, placeholder='...'): the text when it
\* fits, else the longest run of leading words that fits with the placeholder
shorten(ws, width) ==
    IF JoinedLen(ws) <= width THEN Words(ws)
    ELSE LET fits == {j \in 0..Len(ws) : j = 0 \/ JoinedLen(SubSeq(ws, 1, j)) + 3 <= width}
             j == CHOOSE x \in fits : \A y \in fits : y <= x
         IN  Words(SubSeq(ws, 1, j)) \o <<"...">>

\* datetime.strptime(ts[:19], "%Y-%m-%dT%H:%M:%S").strftime("%Y-%m-%d %H:%M")
FormatDate(ts) == <<ts.date, " ", ts.hm>>

\* the exception the loop body of print_issues raises on this issue, "" if none
RowError(issue) ==
    IF ~hasattr(issue, "created") THEN "AttributeError"
    ELSE IF "created" \in issue.null THEN "TypeError"
    ELSE IF ~issue.created.wf THEN "ValueError"
    ELSE IF ~hasattr(issue, "updated") THEN "AttributeError"
    ELSE IF "updated" \in issue.null THEN "TypeError"
    ELSE IF ~issue.updated.wf THEN "ValueError"
    ELSE IF ~hasattr(issue, "assignee") THEN "AttributeError"
    ELSE IF ~hasattr(issue, "priority") THEN "AttributeError"
    ELSE IF ~hasattr(issue, "summary") \/ "summary" \in issue.null THEN "AttributeError"
    ELSE IF ~hasattr(issue, "status") \/ "status" \in issue.null THEN "AttributeError"
    ELSE ""

\* the row table.add_row gets
Row(issue) ==
    <<<<issue.key>>,
      FormatDate(issue.created),
      FormatDate(issue.updated),
      IF truthy(issue, "assignee") THEN <<issue.assignee>> ELSE <<"Unassigned">>,
      <<issue.status>>,
      IF truthy(issue, "priority") THEN <<issue.priority>> ELSE <<"N/A">>,
      shorten(issue.summary, SummaryWidth),
      IF hasattr(issue, "labels") /\ truthy(issue, "labels")
      THEN join(<<", ">>, [i \in DOMAIN issue.labels |-> <<issue.labels[i]>>])
      ELSE <<>> >>

TableEv(rows) == [ch |-> "out", kind |-> "table", text |-> <<>>, n |-> 0, rows |-> rows]

\* print_issues(issues): the exception it raises ("" if it returns) and what
\* it printed.  The table is printed after the loop, so nothing is printed
\* when the loop raises.
print_issues(issues) ==
    IF issues.isNone THEN [raised |-> "TypeError", events |-> <<>>]
    ELSE IF \E i \in DOMAIN issues.items : RowError(issues.items[i]) # ""
    THEN LET k == CHOOSE i \in DOMAIN issues.items :
                    /\ RowError(issues.items[i]) # ""
                    /\ \A j \in 1..(i - 1) : RowError(issues.items[j]) = ""
         IN  [raised |-> RowError(issues.items[k]), events |-> <<>>]
    ELSE [raised |-> "",
          events |-> <<TableEv([i \in DOMAIN issues.items |-> Row(issues.items[i])]),
                       Ev("err", "Total issues", <<>>, Len(issues.items))>>]

\* the lists of issues the renderers are tried on
Batches ==
    {NoIssues}
    \cup {IssueList(b) : b \in SeqsUpTo(BatchIssues, MaxIssues)}
    \cup {IssueList(<<i>>) : i \in AbsentIssues \cup PartialIssues \cup MalformedIssues}

\* a direct call of jirals.print_issues(issues)
print_issues_call ==
    /\ pc = "idle"
    /\ prog' = "lib"
    /\ \E issues \in Batches :
         LET r == print_issues(issues)
         IN  /\ args' = issues
             /\ trace' = trace \o r.events
             /\ locals' = [raised |-> r.raised]
             /\ result' = IF r.raised = "" THEN "None" ELSE "raised"
    /\ pc' = "returned"
    /\ UNCHANGED <<creds, attempts, exitCode>>

(***************************************************************************)
(* The state of one invocation.                                            *)
(*   prog      which entry point runs                                      *)
(*   pc        where it is                                                 *)
(*   creds     JiraManager.server / username / api_token ("" is None)      *)
(*   attempts  connection attempts that failed                             *)
(*   args      the parsed arguments, or the argument of the call           *)
(*   locals    local variables of the entry point worth keeping            *)
(*   exitCode  the process's exit status, -1 while it has not exited       *)
(*   result    the value a called function returned                        *)
(***************************************************************************)
NoArgs == [none |-> TRUE]

NoLocals == [none |-> TRUE]

NoCreds == [server |-> "", username |-> "", api_token |-> ""]

CredFields == {"server", "username", "api_token"}

Init ==
    /\ prog = "none"
    /\ pc = "idle"
    /\ creds = NoCreds
    /\ attempts = 0
    /\ args = NoArgs
    /\ locals = NoLocals
    /\ trace = <<>>
    /\ exitCode = -1
    /\ result = "unset"

(***************************************************************************)
(* controllers/jira_manager.py: JiraManager.__init__, _load_config,        *)
(* _connect and _prompt_credentials.  The deprecated JiraManager differs   *)
(* in printing everything on stdout and in offering to save.               *)
(***************************************************************************)
\* what the configuration file holds: everything, nothing, all but the token
ConfigCreds ==
    {[server |-> "cfg", username |-> "cfg", api_token |-> "cfg"],
     [server |-> "", username |-> "", api_token |-> ""],
     [server |-> "cfg", username |-> "cfg", api_token |-> ""]}

\* what the user types at the three prompts ("" is just pressing return)
Answers ==
    {[server |-> "", username |-> "", api_token |-> ""],
     [server |-> "typed", username |-> "typed", api_token |-> "typed"],
     [server |-> "", username |-> "", api_token |-> "typed"],
     [server |-> "typed", username |-> "", api_token |-> ""]}

DiagCh(p) == IF p = "deprecated" THEN "out" ELSE "err"

\* all([self.server, self.username, self.api_token])
AllSet(c) == \A f \in CredFields : c[f] # ""

ConnectEntry_NoCheck(c) == "try"

\* _connect's first statement: prompt when a credential is missing
ConnectEntry(c) == IF AllSet(c) THEN "try" ELSE "prompt_first"

\* JiraManager(): _load_config reads the credentials the file holds, or
\* fails and leaves them None; then _connect is entered
JiraManager_init ==
    /\ pc = "construct"
    /\ \E fileOK \in BOOLEAN, c \in ConfigCreds :
         /\ fileOK \/ prog \in {"deprecated", "api"}
         /\ creds' = IF fileOK THEN c ELSE NoCreds
         /\ trace' = IF fileOK THEN trace
                     ELSE Append(trace, Ev(DiagCh(prog), "Failed to load configuration",
                                           Exc("OSError"), 0))
         /\ pc' = ConnectEntry(creds')
    /\ UNCHANGED <<prog, attempts, args, locals, exitCode, result>>

\* the try block of _connect: JIRA(...) and jira.myself()
JiraManager_connect ==
    /\ pc = "try"
    /\ \E connected \in BOOLEAN :
         IF connected
         THEN /\ trace' = trace \o <<Remote("myself", <<>>, 0),
                                     Ev(DiagCh(prog), "Connected to JIRA", <<>>, 0)>>
              /\ pc' = "ready"
              /\ UNCHANGED attempts
         ELSE /\ attempts < MaxAttempts
              /\ trace' = trace \o <<Remote("myself", <<>>, 0),
                                     Ev(DiagCh(prog), "Failed to connect to JIRA",
                                        Exc("JIRAError"), 0)>>
              /\ attempts' = attempts + 1
              /\ pc' = "prompt_retry"
    /\ UNCHANGED <<prog, creds, args, locals, exitCode, result>>

\* _prompt_credentials: an empty answer keeps the credential
JiraManager_prompt_credentials ==
    /\ pc \in {"prompt_first", "prompt_retry"}
    /\ \E ans \in Answers, save \in BOOLEAN :
         /\ save => prog = "deprecated"
         /\ creds' = [f \in CredFields |-> IF ans[f] # "" THEN ans[f] ELSE creds[f]]
         /\ trace' = trace \o <<Out("JIRA credentials required:", <<>>),
                                Out("input", Exc("JIRA Server URL")),
                                Out("input", Exc("Username (email)"))>>
                           \o (IF prog = "deprecated"
                               THEN <<Out("input", Exc("Save credentials for future use?"))>>
                               ELSE <<>>)
                           \o (IF save THEN <<Ev("file", "_save_config", <<>>, 0)>> ELSE <<>>)
         /\ pc' = IF pc = "prompt_first" THEN "try" ELSE ConnectEntry(creds')
    /\ UNCHANGED <<prog, attempts, args, locals, exitCode, result>>

(***************************************************************************)
(* jirals.main                                                             *)
(***************************************************************************)
\* the methods class JiraManager of controllers/jira_manager.py defines
JiraManagerMethods ==
    {"__init__", "_load_config", "_save_config", "_connect", "_prompt_credentials",
     "list_tickets", "view_ticket", "create_ticket"}

\* lines 104-111: AppConfig() is read, then the arguments are parsed
jirals_start ==
    /\ pc = "idle"
    /\ prog' = "jirals"
    /\ \E configOK \in BOOLEAN :
         IF configOK
         THEN /\ pc' = "construct"
              /\ UNCHANGED <<trace, exitCode>>
         ELSE /\ trace' = Append(trace, Err("Failed to load configuration", Exc("OSError")))
              /\ exitCode' = 1
              /\ pc' = "done"
    /\ UNCHANGED <<creds, attempts, args, locals, result>>

\* lines 116-134: the query is built and jira_manager.list_issues is called.
\* JiraManager has no attribute list_issues, so the call raises
\* AttributeError inside the try block and the handler exits with 1.
\* matching is the number of issues the server holds for the query; the
\* server is never asked.
jirals_list ==
    /\ pc = "ready"
    /\ prog = "jirals"
    /\ \E a \in ListArgs, matching \in {0, 1} :
         LET jql_parts == parse_jql(a)
             jql == jirals_jql(jql_parts, a)
         IN  /\ args' = a
             /\ locals' = [jql_parts |-> jql_parts, jql |-> jql, matching |-> matching]
             /\ "list_issues" \notin JiraManagerMethods
             /\ trace' = Append(trace, Err("Failed to get issues",
                                           Exc("AttributeError: list_issues")))
             /\ exitCode' = 1
             /\ pc' = "done"
    /\ UNCHANGED <<prog, creds, attempts, result>>

\* a direct call of jirals.parse_jql(args)
parse_jql_call ==
    /\ pc = "idle"
    /\ prog' = "lib"
    /\ \E a \in ParseArgs :
         /\ args' = a
         /\ locals' = [jql_parts |-> parse_jql(a)]
    /\ result' = "jql_parts"
    /\ pc' = "returned"
    /\ UNCHANGED <<creds, attempts, trace, exitCode>>


(***************************************************************************)
(* controllers/jira_manager.py: list_tickets, view_ticket, create_ticket,  *)
(* called on a connected JiraManager.                                      *)
(***************************************************************************)
\* a caller constructs JiraManager()
api_start ==
    /\ pc = "idle"
    /\ prog' = "api"
    /\ pc' = "construct"
    /\ UNCHANGED <<creds, attempts, args, locals, trace, exitCode, result>>

\* what jira.search_issues answers: an exception or a list of issues
SearchResponses ==
    {[fail |-> f, items |-> b] :
        f \in BOOLEAN, b \in SeqsUpTo({FullIssue("OPS-1", ShortSummary)}, MaxIssues)}

\* list_tickets without the default for a missing query
list_tickets_query_NoDefault(jql) == jql

\* lines 80-81: the query list_tickets searches for
list_tickets_query(jql) == IF ~Truthy(jql) THEN DEFAULT_JQL ELSE jql

list_tickets ==
    /\ pc = "ready"
    /\ prog = "api"
    /\ \E jql \in {NoneStr, <<>>, <<"q">>}, resp \in SearchResponses :
         /\ args' = [jql |-> jql, max_results |-> 50]
         /\ trace' = Append(trace, Remote("search_issues", list_tickets_query(jql), 50))
                     \o (IF resp.fail
                         THEN <<Err("Failed to list tickets", Exc("JIRAError"))>>
                         ELSE IF resp.items = <<>>
                         THEN <<Err("No issues found.", <<>>)>>
                         ELSE <<>>)
         /\ result' = IF resp.fail \/ resp.items = <<>> THEN "None" ELSE "issues"
         /\ locals' = [issues |-> IF resp.fail \/ resp.items = <<>> THEN NoIssues
                                  ELSE IssueList(resp.items)]
    /\ pc' = "returned"
    /\ UNCHANGED <<prog, creds, attempts, exitCode>>

IssueKeys == {<<"OPS-1">>, <<"OPS-9">>}

view_ticket ==
    /\ pc = "ready"
    /\ prog = "api"
    /\ \E key \in IssueKeys, resp \in {"fail", "falsy", "issue"} :
         /\ args' = [ticket_key |-> key]
         /\ trace' = Append(trace, Remote("issue", key, 0))
                     \o (IF resp = "fail"
                         THEN <<Err("Failed to view ticket", Exc("JIRAError"))>>
                         ELSE IF resp = "falsy"
                         THEN <<Err("Ticket not found.", key)>>
                         ELSE <<>>)
         /\ result' = IF resp = "issue" THEN "issue" ELSE "None"
    /\ pc' = "returned"
    /\ UNCHANGED <<prog, creds, attempts, locals, exitCode>>

\* the keys create_ticket requires, in the order it checks them
required_fields == <<"project", "summary", "issuetype">>

PayloadKeys == {"project", "summary", "issuetype", "labels"}

\* the payloads: a mapping from some keys to values, None among them
Payloads == UNION {[K -> {"None", "x"}] : K \in SUBSET PayloadKeys}

\* the keys are checked in another order
MissingFields_Reordered(ticket_data) ==
    LET order == <<"issuetype", "summary", "project">>
        missing == {i \in DOMAIN order : order[i] \notin DOMAIN ticket_data}
    IN  IF missing = {} THEN <<>>
        ELSE <<order[CHOOSE i \in missing : \A j \in missing : i <= j]>>

\* lines 108-115: the fields the validation loop reports: the first one of
\* required_fields that is not a key of the payload, after which it returns
MissingFields(ticket_data) ==
    LET missing == {i \in DOMAIN required_fields :
                        required_fields[i] \notin DOMAIN ticket_data}
    IN  IF missing = {} THEN <<>>
        ELSE <<required_fields[CHOOSE i \in missing : \A j \in missing : i <= j]>>

\* the validation reports the missing field and goes on to create
create_ticket_events_NoReturn(ticket_data, created) ==
    [i \in DOMAIN MissingFields(ticket_data) |->
        Err("Missing required field", <<MissingFields(ticket_data)[i]>>)]
    \o <<Remote("create_issue", <<>>, 0)>>
    \o (IF created THEN <<Out("Success! Created", <<"OPS-9">>)>>
        ELSE <<Err("Failed to create ticket", Exc("JIRAError"))>>)

\* lines 107-126: what create_ticket emits; created says whether the server
\* accepts the request
create_ticket_events(ticket_data, created) ==
    IF MissingFields(ticket_data) # <<>>
    THEN [i \in DOMAIN MissingFields(ticket_data) |->
            Err("Missing required field", <<MissingFields(ticket_data)[i]>>)]
    ELSE <<Remote("create_issue", <<>>, 0)>>
         \o (IF created THEN <<Out("Success! Created", <<"OPS-9">>)>>
             ELSE <<Err("Failed to create ticket", Exc("JIRAError"))>>)

create_ticket ==
    /\ pc = "ready"
    /\ prog = "api"
    /\ \E ticket_data \in Payloads, created \in BOOLEAN :
         /\ args' = [ticket_data |-> ticket_data]
         /\ locals' = [before |-> Len(trace)]
         /\ trace' = trace \o create_ticket_events(ticket_data, created)
         /\ result' = IF MissingFields(ticket_data) = <<>> /\ created
                      THEN "new_issue" ELSE "None"
    /\ pc' = "returned"
    /\ UNCHANGED <<prog, creds, attempts, exitCode>>


(***************************************************************************)
(* jiracat.format_issue_as_markdown.  The markdown text is a sequence of   *)
(* tokens: the literals of the source and the values of the issue.  A      *)
(* description is a sequence of tokens too, the Jira code markers {code}   *)
(* and {code:LANG} each being one token.                                   *)
(***************************************************************************)
\* the three backquotes that open and close a fenced block in markdown
Fence == "<fence>"

CodeClose == "{code}"

CodeOpen == {"{code}", "{code:py}", "{code:js}"}

\* group 1 of the pattern: the language of an opening marker, "" if none
CodeLang(t) == IF t = "{code:py}" THEN "py" ELSE IF t = "{code:js}" THEN "js" ELSE ""

\* re.sub(r'\{code(?::([^}]+))?\}(.*?)\{code\}', ..., description, flags=re.DOTALL):
\* the leftmost opening marker that a {code} follows, with the text up to the
\* first such {code}, becomes a fenced block; then on from behind it
RECURSIVE re_sub_code(_)
re_sub_code(d) ==
    LET opens == {i \in DOMAIN d : d[i] \in CodeOpen
                                   /\ \E j \in (i + 1)..Len(d) : d[j] = CodeClose}
    IN  IF opens = {} THEN d
        ELSE LET i == CHOOSE x \in opens : \A y \in opens : x <= y
                 j == CHOOSE x \in (i + 1)..Len(d) :
                        d[x] = CodeClose /\ \A y \in (i + 1)..(x - 1) : d[y] # CodeClose
             IN  SubSeq(d, 1, i - 1)
                 \o <<Fence>> \o (IF CodeLang(d[i]) = "" THEN <<>> ELSE <<CodeLang(d[i])>>)
                 \o <<"\n">> \o SubSeq(d, i + 1, j - 1) \o <<"\n", Fence>>
                 \o re_sub_code(SubSeq(d, j + 1, Len(d)))

ConvertDescription_Greedy(d) ==
    LET opens == {i \in DOMAIN d : d[i] \in CodeOpen
                                   /\ \E j \in (i + 1)..Len(d) : d[j] = CodeClose}
    IN  IF opens = {} THEN d
        ELSE LET i == CHOOSE x \in opens : \A y \in opens : x <= y
                 j == CHOOSE x \in (i + 1)..Len(d) :
                        d[x] = CodeClose /\ \A y \in (x + 1)..Len(d) : d[y] # CodeClose
             IN  SubSeq(d, 1, i - 1)
                 \o <<Fence>> \o (IF CodeLang(d[i]) = "" THEN <<>> ELSE <<CodeLang(d[i])>>)
                 \o <<"\n">> \o SubSeq(d, i + 1, j - 1) \o <<"\n", Fence>>
                 \o SubSeq(d, j + 1, Len(d))

\* lines 79-85
ConvertDescription(d) ==
    IF \E i \in DOMAIN d : d[i] \in CodeOpen THEN re_sub_code(d) ELSE d

\* the attributes format_issue_as_markdown reads without asking hasattr first
UnguardedFields ==
    {"summary", "status", "priority", "issuetype", "customfield_12432", "labels",
     "creator", "assignee", "reporter", "created", "updated", "description"}

\* the exception format_issue_as_markdown raises on this issue, "" if none
FormatError(issue) ==
    IF \E f \in UnguardedFields : ~hasattr(issue, f) THEN "AttributeError"
    ELSE IF hasattr(issue, "comment") /\ "comment" \in issue.null THEN "AttributeError"
    ELSE ""

MdLine(label, value) == <<<<label>> \o value>>

IssueMetadata(issue) ==
       (IF truthy(issue, "status") THEN MdLine("**Status:** ", <<issue.status>>) ELSE <<>>)
    \o (IF truthy(issue, "priority")
        THEN MdLine("**Priority:** ", <<issue.priority>>) ELSE <<>>)
    \o (IF hasattr(issue, "parent") /\ truthy(issue, "parent")
        THEN MdLine("**Parent:** ", <<issue.parent>>) ELSE <<>>)
    \o (IF truthy(issue, "issuetype")
        THEN MdLine("**Type:** ", <<issue.issuetype>>) ELSE <<>>)
    \o (IF truthy(issue, "customfield_12432")
        THEN MdLine("**Brands:** ",
                    join(<<", ">>, [i \in DOMAIN issue.customfield_12432 |->
                                        <<issue.customfield_12432[i]>>]))
        ELSE <<>>)
    \o (IF truthy(issue, "labels")
        THEN MdLine("**Labels:** ",
                    join(<<", ">>, [i \in DOMAIN issue.labels |-> <<issue.labels[i]>>]))
        ELSE <<>>)

UserMetadata(issue) ==
       (IF truthy(issue, "creator")
        THEN MdLine("**Creator:** ", <<issue.creator>>) ELSE <<>>)
    \o (IF truthy(issue, "assignee")
        THEN MdLine("**Assignee:** ", <<issue.assignee>>) ELSE <<>>)
    \o (IF truthy(issue, "reporter")
        THEN MdLine("**Reporter:** ", <<issue.reporter>>) ELSE <<>>)

DateMetadata(issue) ==
       (IF truthy(issue, "created")
        THEN MdLine("**Created:** ", <<issue.created.head>>) ELSE <<>>)
    \o (IF truthy(issue, "updated")
        THEN MdLine("**Updated:** ", <<issue.updated.head>>) ELSE <<>>)

MdComment(c) ==
    <<"### ", IF c.hasDisplayName THEN c.author ELSE "Unknown", " - ",
      IF c.hasCreated THEN c.created.head ELSE "Unknown date", "\n\n">>
    \o c.body \o <<"\n\n---\n\n">>

RECURSIVE MdComments(_)
MdComments(cs) == IF cs = <<>> THEN <<>> ELSE MdComment(Head(cs)) \o MdComments(Tail(cs))

\* the string format_issue_as_markdown returns when it raises nothing
Markdown(issue) ==
    <<"# ", issue.key, ": ">> \o Words(issue.summary) \o <<"\n\n">>
    \o <<"## Metadata\n\n">>
    \o join(<<"\n">>, IssueMetadata(issue)) \o <<"\n\n">>
    \o join(<<"\n">>, UserMetadata(issue)) \o <<"\n\n">>
    \o join(<<"\n">>, DateMetadata(issue)) \o <<"\n\n">>
    \o (IF truthy(issue, "description")
        THEN <<"## Description\n\n">> \o ConvertDescription(issue.description) \o <<"\n\n">>
        ELSE <<>>)
    \o (IF hasattr(issue, "comment")
        THEN <<"## Comments\n\n">> \o MdComments(issue.comment)
        ELSE <<>>)

format_issue_as_markdown(issue) ==
    IF FormatError(issue) # "" THEN [raised |-> FormatError(issue), markdown |-> <<>>]
    ELSE [raised |-> "", markdown |-> Markdown(issue)]

\* the tokens of the generated descriptions: two words and the markers
DescTokens == {"x", "y"} \cup CodeOpen

\* descriptions with code blocks: some chosen ones and every description of
\* up to MaxDesc tokens
CodeDescriptions ==
    {<<"{code:py}", "x", "{code}">>,
     <<"a", "{code}", "x", "\n", "y", "{code}", "b">>,
     <<"{code:py}", "x", "{code}", "mid", "{code:js}", "y", "{code}">>,
     <<"{code:py}", "x">>}
    \cup UNION {[1..n -> DescTokens] : n \in 1..MaxDesc}

\* the issues the document renderer is tried on
DocumentIssues ==
    AbsentIssues \cup PartialIssues \cup MalformedIssues
    \cup {[FullIssue("OPS-2", LongSummary) EXCEPT !.description = d] : d \in CodeDescriptions}

\* a direct call of jiracat.format_issue_as_markdown(issue)
format_issue_as_markdown_call ==
    /\ pc = "idle"
    /\ prog' = "lib"
    /\ \E issue \in DocumentIssues :
         LET r == format_issue_as_markdown(issue)
         IN  /\ args' = issue
             /\ locals' = [raised |-> r.raised, markdown |-> r.markdown]
             /\ result' = IF r.raised = "" THEN "markdown" ELSE "raised"
    /\ pc' = "returned"
    /\ UNCHANGED <<creds, attempts, trace, exitCode>>

(***************************************************************************)
(* jiracat.main                                                            *)
(***************************************************************************)
\* lines 104-115: AppConfig() is read and the arguments are parsed; with
\* --view browser the issue's page is opened and the process exits
jiracat_start ==
    /\ pc = "idle"
    /\ prog' = "jiracat"
    /\ \E configOK \in BOOLEAN, key \in IssueKeys, view \in {"terminal", "browser"},
          server \in {"https://jira.example", "None"} :
         IF ~configOK
         THEN /\ trace' = Append(trace, Out("Failed to load configuration", Exc("OSError")))
              /\ exitCode' = 1
              /\ pc' = "done"
              /\ UNCHANGED args
         ELSE /\ args' = [issue_key |-> key, view |-> view, server |-> server]
              /\ IF view = "browser"
                 THEN /\ trace' = Append(trace, Ev("browser", "webbrowser.open",
                                                   <<server, "/browse/">> \o key, 0))
                      /\ exitCode' = 0
                      /\ pc' = "done"
                 ELSE /\ pc' = "construct"
                      /\ UNCHANGED <<trace, exitCode>>
    /\ UNCHANGED <<creds, attempts, locals, result>>

\* lines 118-124: jira_manager.fetch_issue is called.  JiraManager has no
\* attribute fetch_issue and nothing catches the AttributeError: the
\* interpreter prints the traceback and exits with 1.
jiracat_view ==
    /\ pc = "ready"
    /\ prog = "jiracat"
    /\ "fetch_issue" \notin JiraManagerMethods
    /\ trace' = Append(trace, Err("Traceback", Exc("AttributeError: fetch_issue")))
    /\ exitCode' = 1
    /\ pc' = "done"
    /\ UNCHANGED <<prog, creds, attempts, args, locals, result>>


(***************************************************************************)
(* deprecated/main.py: the single-file CLI with its own JiraManager.  It   *)
(* prints everything, errors included, on stdout and always returns from   *)
(* main(), so that the process exits with 0.                               *)
(***************************************************************************)
DeprecatedSummaryWidth == 60

\* lines 296-306: the command is parsed; without one the help is printed
deprecated_start ==
    /\ pc = "idle"
    /\ prog' = "deprecated"
    /\ \E command \in {"none", "list", "view", "create"} :
         /\ locals' = [command |-> command]
         /\ IF command = "none"
            THEN /\ trace' = Append(trace, Out("print_help", <<>>))
                 /\ exitCode' = 0
                 /\ pc' = "done"
            ELSE /\ pc' = "construct"
                 /\ UNCHANGED <<trace, exitCode>>
    /\ UNCHANGED <<creds, attempts, args, result>>

\* lines 319-335: the values are quoted as they are, without strip()
deprecated_QuotedList(s) ==
    LET vs == split(s, ",")
    IN  join(<<",", " ">>, [i \in DOMAIN vs |-> quoted(vs[i])])

\* lines 311-335
deprecated_jql_parts(a) ==
       (IF a.my_issues THEN <<ASSIGNEE_CLAUSE>> ELSE <<>>)
    \o (IF a.my_reported THEN <<REPORTER_CLAUSE>> ELSE <<>>)
    \o (IF Truthy(a.project) THEN <<PROJECT_PREFIX \o a.project>> ELSE <<>>)
    \o (IF Truthy(a.status)
        THEN <<STATUS_IN_PREFIX \o deprecated_QuotedList(a.status) \o <<")">> >>
        ELSE <<>>)
    \o (IF Truthy(a.ne_status)
        THEN <<STATUS_NOT_IN_PREFIX \o deprecated_QuotedList(a.ne_status) \o <<")">> >>
        ELSE <<>>)
    \o (IF Truthy(a.tags)
        THEN <<LABELS_IN_PREFIX \o deprecated_QuotedList(a.tags) \o <<")">> >>
        ELSE <<>>)

\* lines 338-341
deprecated_jql(jql_parts, a) ==
    IF jql_parts # <<>> /\ ~Truthy(a.jql)
    THEN join(AND_SEP, jql_parts) \o ORDER_BY_UPDATED
    ELSE a.jql

\* lines 103-104
list_issues_query(jql) == IF ~Truthy(jql) THEN DEPRECATED_DEFAULT_JQL ELSE jql

\* the exception the loop body of list_issues raises on this issue, "" if none
DeprecatedRowError(issue) ==
    IF ~hasattr(issue, "updated") THEN "AttributeError"
    ELSE IF "updated" \in issue.null THEN "TypeError"
    ELSE IF ~issue.updated.wf THEN "ValueError"
    ELSE IF ~hasattr(issue, "created") THEN "AttributeError"
    ELSE IF "created" \in issue.null THEN "TypeError"
    ELSE IF ~issue.created.wf THEN "ValueError"
    ELSE IF ~hasattr(issue, "assignee") THEN "AttributeError"
    ELSE IF ~hasattr(issue, "status") \/ "status" \in issue.null THEN "AttributeError"
    ELSE IF ~hasattr(issue, "summary") \/ "summary" \in issue.null THEN "AttributeError"
    ELSE ""

DeprecatedRow(issue, server) ==
    <<<<issue.key>>,
      FormatDate(issue.created),
      FormatDate(issue.updated),
      IF truthy(issue, "assignee") THEN <<issue.assignee>> ELSE <<"Unassigned">>,
      <<issue.status>>,
      IF hasattr(issue, "priority") /\ truthy(issue, "priority")
      THEN <<issue.priority>> ELSE <<"N/A">>,
      shorten(issue.summary, DeprecatedSummaryWidth),
      IF hasattr(issue, "labels") /\ truthy(issue, "labels")
      THEN join(<<", ">>, [i \in DOMAIN issue.labels |-> <<issue.labels[i]>>])
      ELSE <<>>,
      <<server, "/browse/", issue.key>> >>

\* lines 101-156: what list_issues emits for a query and the server's answer
list_issues_events(jql, resp, server) ==
    <<Remote("search_issues", list_issues_query(jql), 50)>>
    \o (IF resp.fail THEN <<Out("Error listing issues", Exc("JIRAError"))>>
        ELSE IF resp.items = <<>>
        THEN <<Out("No issues found matching your criteria.", <<>>)>>
        ELSE IF \E i \in DOMAIN resp.items : DeprecatedRowError(resp.items[i]) # ""
        THEN LET k == CHOOSE i \in DOMAIN resp.items :
                        /\ DeprecatedRowError(resp.items[i]) # ""
                        /\ \A j \in 1..(i - 1) : DeprecatedRowError(resp.items[j]) = ""
             IN  <<Out("Error listing issues", Exc(DeprecatedRowError(resp.items[k])))>>
        ELSE <<TableEv([i \in DOMAIN resp.items |-> DeprecatedRow(resp.items[i], server)]),
               Ev("out", "Total issues", <<>>, Len(resp.items))>>)

\* the arguments and the server's answer tried on the deprecated list command
DeprecatedListResponses ==
    {[fail |-> TRUE, items |-> <<>>],
     [fail |-> FALSE, items |-> <<>>],
     [fail |-> FALSE, items |-> <<FullIssue("OPS-1", ShortSummary)>>],
     [fail |-> FALSE,
      items |-> <<FullIssue("OPS-2", LongSummary),
                  Nulled(FullIssue("OPS-4", ShortSummary), {"status"})>>]}

DeprecatedListArgs ==
    {a \in ListArgs : a.my_reported = a.my_issues /\ a.ne_status = a.tags /\ a.project # <<>>}

\* lines 309-343: the list command
deprecated_list ==
    /\ pc = "ready"
    /\ prog = "deprecated"
    /\ locals.command = "list"
    /\ \E a \in DeprecatedListArgs, resp \in DeprecatedListResponses :
         /\ resp = [fail |-> FALSE, items |-> <<>>]
            \/ (~a.my_issues /\ a.tags = NoneStr /\ a.status = NoneStr)
         /\ LET jql_parts == deprecated_jql_parts(a)
                jql == deprecated_jql(jql_parts, a)
            IN  /\ args' = a
                /\ locals' = [command |-> "list", jql_parts |-> jql_parts, jql |-> jql,
                              before |-> Len(trace), resp |-> resp]
                /\ trace' = trace \o list_issues_events(jql, resp, creds.server)
    /\ exitCode' = 0
    /\ pc' = "done"
    /\ UNCHANGED <<prog, creds, attempts, result>>

\* the exception building the details table of view_issue raises, "" if none
ViewDetailsError(issue) ==
    IF ~hasattr(issue, "status") \/ "status" \in issue.null THEN "AttributeError"
    ELSE IF ~hasattr(issue, "reporter") \/ "reporter" \in issue.null THEN "AttributeError"
    ELSE IF ~hasattr(issue, "assignee") THEN "AttributeError"
    ELSE IF ~hasattr(issue, "created") THEN "AttributeError"
    ELSE IF "created" \in issue.null THEN "TypeError"
    ELSE IF ~hasattr(issue, "updated") THEN "AttributeError"
    ELSE IF "updated" \in issue.null THEN "TypeError"
    ELSE ""

ViewDetails(issue) ==
    <<<<"Status", issue.status>>,
      <<"Priority", IF hasattr(issue, "priority") /\ truthy(issue, "priority")
                    THEN issue.priority ELSE "N/A">>,
      <<"Reporter", issue.reporter>>,
      <<"Assignee", IF truthy(issue, "assignee") THEN issue.assignee ELSE "Unassigned">>,
      <<"Created", issue.created.head>>,
      <<"Updated", issue.updated.head>> >>

\* the comments view_issue prints before one without an author's name stops it
RECURSIVE ViewComments(_)
ViewComments(cs) ==
    IF cs = <<>> THEN <<>>
    ELSE IF ~Head(cs).hasDisplayName \/ ~Head(cs).hasCreated
    THEN <<Out("raise", Exc("AttributeError"))>>
    ELSE <<Out("comment", <<Head(cs).author, " | ", Head(cs).created.head>> \o Head(cs).body)>>
         \o ViewComments(Tail(cs))

\* lines 158-218: what view_issue emits; what was printed before an
\* exception stays printed
view_issue_events(key, fail, issue) ==
    <<Remote("issue", key, 0)>>
    \o (IF fail THEN <<Out("Error viewing issue", key)>>
        ELSE IF ~hasattr(issue, "summary") THEN <<Out("Error viewing issue", key)>>
        ELSE <<Out("header", <<issue.key, ": ">> \o Words(issue.summary))>>
          \o (IF ViewDetailsError(issue) # "" THEN <<Out("Error viewing issue", key)>>
              ELSE <<[ch |-> "out", kind |-> "details", text |-> <<>>, n |-> 0,
                      rows |-> ViewDetails(issue)]>>
                \o (IF ~hasattr(issue, "description")
                    THEN <<Out("Description:", <<>>), Out("Error viewing issue", key)>>
                    ELSE <<Out("Description:", <<>>),
                           IF truthy(issue, "description")
                           THEN Out("description", issue.description)
                           ELSE Out("No description provided.", <<>>)>>
                      \o (IF ~hasattr(issue, "comment") THEN <<>>
                          ELSE IF "comment" \in issue.null
                          THEN <<Out("Error viewing issue", key)>>
                          ELSE IF issue.comment = <<>> THEN <<>>
                          ELSE LET cs == ViewComments(issue.comment)
                               IN  <<Out("Comments:", <<>>)>>
                                   \o SelectSeq(cs, LAMBDA e : e.kind = "comment")
                                   \o (IF \E i \in DOMAIN cs : cs[i].kind = "raise"
                                       THEN <<Out("Error viewing issue", key)>>
                                       ELSE <<>>)))))

\* the issues the deprecated view command is tried on
ViewIssues ==
    {FullIssue("OPS-1", ShortSummary),
     [FullIssue("OPS-1", ShortSummary) EXCEPT !.comment = <<Comment1>>],
     Nulled(Missing(FullIssue("OPS-1", ShortSummary), {"parent", "comment"}),
            {"assignee", "priority", "description"}),
     Nulled(FullIssue("OPS-1", ShortSummary), {"reporter"})}

\* lines 345-346: the view command
deprecated_view ==
    /\ pc = "ready"
    /\ prog = "deprecated"
    /\ locals.command = "view"
    /\ \E key \in IssueKeys, fail \in BOOLEAN, issue \in ViewIssues :
         /\ fail => issue = FullIssue("OPS-1", ShortSummary)
         /\ args' = [issue_key |-> key, issue |-> issue, fail |-> fail]
         /\ locals' = [command |-> "view", before |-> Len(trace)]
         /\ trace' = trace \o view_issue_events(key, fail, issue)
    /\ exitCode' = 0
    /\ pc' = "done"
    /\ UNCHANGED <<prog, creds, attempts, result>>

\* lines 220-247: what create_issue emits.  loaded says whether the YAML
\* file could be read, created whether the server accepts the request, view
\* whether the user answers y to "View issue?"
create_issue_events(loaded, issue_data, created, view) ==
    IF ~loaded THEN <<Out("Error creating issue", Exc("OSError"))>>
    ELSE IF MissingFields(issue_data) # <<>>
    THEN [i \in DOMAIN MissingFields(issue_data) |->
            Out("Error: Missing required field", <<MissingFields(issue_data)[i]>>)]
    ELSE <<Remote("create_issue", <<>>, 0)>>
         \o (IF ~created THEN <<Out("Error creating issue", Exc("JIRAError"))>>
             ELSE <<Out("Success! Created issue", <<"OPS-1">>),
                    Out("input", Exc("View issue?"))>>
                  \o (IF view
                      THEN view_issue_events(<<"OPS-1">>, FALSE,
                                             FullIssue("OPS-1", ShortSummary))
                      ELSE <<>>))

\* the YAML files tried: every set of keys, each with a value
DeprecatedPayloads == UNION {[K -> {"x"}] : K \in SUBSET PayloadKeys}

\* lines 348-349: the create command
deprecated_create ==
    /\ pc = "ready"
    /\ prog = "deprecated"
    /\ locals.command = "create"
    /\ \E loaded \in BOOLEAN, issue_data \in DeprecatedPayloads, created \in BOOLEAN,
          view \in BOOLEAN :
         /\ ~loaded => (issue_data = <<>> /\ ~created /\ ~view)
         /\ MissingFields(issue_data) # <<>> => (~created /\ ~view)
         /\ view => created
         /\ args' = [ticket_data |-> issue_data, loaded |-> loaded]
         /\ locals' = [command |-> "create", before |-> Len(trace)]
         /\ trace' = trace \o create_issue_events(loaded, issue_data, created, view)
    /\ exitCode' = 0
    /\ pc' = "done"
    /\ UNCHANGED <<prog, creds, attempts, result>>


(***************************************************************************)
(* Properties.                                                             *)
(***************************************************************************)
EventsOf(ch, kind) == SelectSeq(trace, LAMBDA e : e.ch = ch /\ e.kind = kind)

SearchEvents == EventsOf("remote", "search_issues")

\* a list command that got as far as building its query
ListRan(p) == prog = p /\ pc = "done" /\ "jql" \in DOMAIN locals

CriteriaSet(a) ==
    <<a.my_issues, a.my_reported, Truthy(a.project), Truthy(a.status),
      Truthy(a.ne_status), Truthy(a.tags)>>

AllCriteria(a) == \A k \in 1..6 : CriteriaSet(a)[k]

NoCriteria(a) == \A k \in 1..6 : ~CriteriaSet(a)[k]

\* C1: with a non-empty --jql the query of the list command is the override
\* itself, whatever the other criteria are: jirals hands exactly it to the
\* list call, and every search request sent (by the deprecated list command
\* and by list_tickets) carries exactly the query it was given.
C1_OverrideWins ==
    /\ (ListRan("jirals") /\ Truthy(args.jql)) => locals.jql = args.jql
    /\ (ListRan("deprecated") /\ Truthy(args.jql)) =>
          /\ locals.jql = args.jql
          /\ Len(SearchEvents) = 1
          /\ SearchEvents[1].text = args.jql
    /\ (prog = "api" /\ pc = "returned" /\ "jql" \in DOMAIN args /\ Truthy(args.jql)) =>
          /\ Len(SearchEvents) = 1
          /\ SearchEvents[1].text = args.jql

C1_Witness ==
    /\ ListRan("deprecated")
    /\ args.jql = <<"q">>
    /\ AllCriteria(args)
    /\ Len(SearchEvents) = 1
    /\ SearchEvents[1].text = <<"q">>

\* C2: a search request never carries an empty or missing query; when
\* list_tickets gets no query (None or "") it searches for the default
\* clause followed by the ordering directive, and so does the deprecated
\* list command when no criterion and no override is given.
C2_DefaultQuery ==
    /\ \A i \in DOMAIN SearchEvents : Truthy(SearchEvents[i].text)
    /\ (prog = "api" /\ pc = "returned" /\ "jql" \in DOMAIN args /\ ~Truthy(args.jql)) =>
          /\ Len(SearchEvents) = 1
          /\ SearchEvents[1].text = ASSIGNEE_CLAUSE \o ORDER_BY_CREATED
    /\ (ListRan("deprecated") /\ NoCriteria(args) /\ ~Truthy(args.jql)) =>
          /\ Len(SearchEvents) = 1
          /\ SearchEvents[1].text = ASSIGNEE_CLAUSE \o ORDER_BY_UPDATED

C2_Witness ==
    /\ prog = "api"
    /\ pc = "returned"
    /\ "jql" \in DOMAIN args
    /\ args.jql = <<>>
    /\ Len(SearchEvents) = 1
    /\ SearchEvents[1].text = ASSIGNEE_CLAUSE \o ORDER_BY_CREATED

ClausePrefixes ==
    <<ASSIGNEE_CLAUSE, REPORTER_CLAUSE, PROJECT_PREFIX, STATUS_IN_PREFIX,
      STATUS_NOT_IN_PREFIX, LABELS_IN_PREFIX>>

IsPrefix(p, s) == Len(p) <= Len(s) /\ SubSeq(s, 1, Len(p)) = p

\* where sub occurs in s
Occurrences(sub, s) ==
    {i \in 1..(Len(s) - Len(sub) + 1) : SubSeq(s, i, i + Len(sub) - 1) = sub}

\* C3: without an override, jql_parts holds one clause per criterion that is
\* set and none for the others, in the order assignee, reporter, project,
\* status IN, status NOT IN, labels IN; and when some criterion is set the
\* query of jirals contains each of these clauses once, at increasing
\* positions, with ' AND ' between them and ' ORDER BY created DESC' once,
\* at its end.
C3_ClauseOrder ==
    ("jql_parts" \in DOMAIN locals /\ prog \in {"lib", "jirals"}) =>
        LET set == {k \in 1..6 : CriteriaSet(args)[k]}
            parts == locals.jql_parts
        IN  /\ Len(parts) = Cardinality(set)
            /\ \A i \in DOMAIN parts :
                 \E k \in set : /\ IsPrefix(ClausePrefixes[k], parts[i])
                                /\ Cardinality({j \in set : j < k}) = i - 1
            /\ (prog = "jirals" /\ ~Truthy(args.jql) /\ set # {}) =>
                 LET q == locals.jql
                 IN  /\ \A k \in 1..6 :
                          Cardinality(Occurrences(ClausePrefixes[k], q))
                            = IF k \in set THEN 1 ELSE 0
                     /\ \A k1 \in set, k2 \in set :
                          k1 < k2 => \A i1 \in Occurrences(ClausePrefixes[k1], q),
                                        i2 \in Occurrences(ClausePrefixes[k2], q) : i1 < i2
                     /\ Cardinality(Occurrences(AND_SEP, q)) = Cardinality(set) - 1
                     /\ Occurrences(ORDER_BY_CREATED, q)
                          = {Len(q) - Len(ORDER_BY_CREATED) + 1}

C3_Witness ==
    /\ ListRan("jirals")
    /\ ~Truthy(args.jql)
    /\ AllCriteria(args)
    /\ Len(locals.jql_parts) = 6
    /\ Cardinality(Occurrences(AND_SEP, locals.jql)) = 5

\* the text between the commas of s, from the left
CommaPositions(s) == {i \in DOMAIN s : s[i] = ","}

NthOf(S, k) == CHOOSE i \in S : Cardinality({j \in S : j < i}) = k - 1

Piece(s, k) ==
    LET cs == CommaPositions(s)
        from == IF k = 1 THEN 1 ELSE NthOf(cs, k - 1) + 1
        to == IF k = Cardinality(cs) + 1 THEN Len(s) ELSE NthOf(cs, k) - 1
    IN  SubSeq(s, from, to)

\* v without the blanks at its ends
Trimmed(v) ==
    LET ns == {i \in DOMAIN v : v[i] # " "}
    IN  IF ns = {} THEN <<>>
        ELSE SubSeq(v, CHOOSE i \in ns : \A j \in ns : i <= j,
                       CHOOSE i \in ns : \A j \in ns : j <= i)

\* clause is prefix(...) with one quoted entry per piece of input, each the
\* piece trimmed, in the order of the pieces, with ', ' between the entries
IsMembershipTest(clause, prefix, input) ==
    LET n == Cardinality(CommaPositions(input)) + 1
        body == SubSeq(clause, Len(prefix) + 1, Len(clause) - 1)
        qs == {i \in DOMAIN body : body[i] = "\""}
    IN  /\ IsPrefix(prefix, clause)
        /\ clause[Len(clause)] = ")"
        /\ Cardinality(qs) = 2 * n
        /\ NthOf(qs, 1) = 1
        /\ NthOf(qs, 2 * n) = Len(body)
        /\ \A k \in 1..n :
             SubSeq(body, NthOf(qs, 2 * k - 1) + 1, NthOf(qs, 2 * k) - 1)
               = Trimmed(Piece(input, k))
        /\ \A k \in 1..(n - 1) :
             SubSeq(body, NthOf(qs, 2 * k) + 1, NthOf(qs, 2 * k + 1) - 1) = <<",", " ">>

MultiValued ==
    <<[field |-> "status", prefix |-> STATUS_IN_PREFIX],
      [field |-> "ne_status", prefix |-> STATUS_NOT_IN_PREFIX],
      [field |-> "tags", prefix |-> LABELS_IN_PREFIX]>>

Required == {"project", "summary", "issuetype"}

\* the first of project, summary, issuetype that is no key of the payload
FirstMissing(d) ==
    IF "project" \notin DOMAIN d THEN "project"
    ELSE IF "summary" \notin DOMAIN d THEN "summary"
    ELSE "issuetype"

\* create_ticket has returned, or the deprecated create command has ended
CreateRan ==
    /\ "ticket_data" \in DOMAIN args
    /\ \/ prog = "api" /\ pc = "returned"
       \/ prog = "deprecated" /\ pc = "done"

\* the payload reached the validation (the deprecated command read its file)
Validated == CreateRan /\ (prog = "deprecated" => args.loaded)

MissingReports ==
    SelectSeq(trace, LAMBDA e : e.kind \in {"Missing required field",
                                            "Error: Missing required field"})

CreateRequests == EventsOf("remote", "create_issue")

\* C5: the validation reports exactly one missing field, the first of
\* project, summary, issuetype that is no key of the payload; a payload with
\* the three keys passes (the create request is sent) whatever the values.
C5_FirstMissingField ==
    Validated =>
        LET d == args.ticket_data
        IN  IF Required \subseteq DOMAIN d
            THEN Len(MissingReports) = 0 /\ Len(CreateRequests) = 1
            ELSE /\ Len(MissingReports) = 1
                 /\ MissingReports[1].text = <<FirstMissing(d)>>

C5_Witness ==
    /\ Validated
    /\ prog = "api"
    /\ DOMAIN args.ticket_data = {"summary"}
    /\ Len(MissingReports) = 1
    /\ MissingReports[1].text = <<"project">>

\* C6: when a required key is missing from the payload, the invocation sends
\* no create request, prints no success message and views no issue.
C6_NoCreateWithoutValidation ==
    (CreateRan /\ ~(Required \subseteq DOMAIN args.ticket_data)) =>
        \A i \in DOMAIN trace :
            /\ ~(trace[i].ch = "remote" /\ trace[i].kind \in {"create_issue", "issue"})
            /\ trace[i].kind \notin {"Success! Created", "Success! Created issue",
                                     "header", "details"}

C6_Witness ==
    /\ CreateRan
    /\ prog = "api"
    /\ DOMAIN args.ticket_data = {"project", "summary", "labels"}
    /\ Len(MissingReports) = 1
    /\ Len(CreateRequests) = 0
    /\ result = "None"

NoResultsNotices == {"No issues found matching your criteria.", "No issues found."}

\* C7: when the server holds no issue for the query, the list command prints
\* no table, prints a 'no results' notice on stderr and exits with 0.
C7_ZeroResults ==
    (\/ ListRan("jirals") /\ locals.matching = 0
     \/ ListRan("deprecated") /\ ~locals.resp.fail /\ locals.resp.items = <<>>) =>
        /\ exitCode = 0
        /\ Len(EventsOf("out", "table")) = 0
        /\ \E i \in DOMAIN trace :
             trace[i].ch = "err" /\ trace[i].kind \in NoResultsNotices

\* what the invocation emitted once the JiraManager was connected: the
\* operation proper
OperationTrace ==
    LET cs == {i \in DOMAIN trace : trace[i].kind = "Connected to JIRA"}
    IN  IF cs = {} THEN trace
        ELSE SubSeq(trace, (CHOOSE i \in cs : \A j \in cs : j <= i) + 1, Len(trace))

\* the operation's request to the server raised
RemoteFailure == \E i \in DOMAIN OperationTrace : OperationTrace[i].text = Exc("JIRAError")

\* the validation found a required field missing
ValidationFailure == Len(MissingReports) > 0

\* C8: an invocation of list, view or create in which the validation or the
\* request to the server failed ends with a non-zero exit code, after a
\* message on stderr and without anything on stdout (so an invocation that
\* exits with 0 had no such failure).
C8_FailureExitsNonZero ==
    (pc = "done" /\ (RemoteFailure \/ ValidationFailure)) =>
        /\ exitCode # 0
        /\ \E i \in DOMAIN OperationTrace : OperationTrace[i].ch = "err"
        /\ \A i \in DOMAIN OperationTrace : OperationTrace[i].ch # "out"

\* the fields the server guarantees are there and the timestamps parse
WellFormed(issue) ==
    /\ {"summary", "status", "created", "updated"} \subseteq issue.has
    /\ {"summary", "status", "created", "updated"} \cap issue.null = {}
    /\ issue.created.wf
    /\ issue.updated.wf

\* print_issues was called with a list
PrintIssuesRan ==
    prog = "lib" /\ pc = "returned" /\ "isNone" \in DOMAIN args /\ ~args.isNone

\* C9: on a batch that holds a record that cannot be rendered beside records
\* that can, print_issues prints the table with the row of every well-formed
\* record and one note on stderr per record it had to skip.
C9_SkipAndContinue ==
    PrintIssuesRan =>
        LET tables == EventsOf("out", "table")
            bad == {i \in DOMAIN args.items : ~WellFormed(args.items[i])}
        IN  (bad # {} /\ bad # DOMAIN args.items) =>
            /\ result # "raised"
            /\ Len(tables) = 1
            /\ \A i \in DOMAIN args.items \ bad :
                 \E r \in DOMAIN tables[1].rows :
                     tables[1].rows[r][1] = <<args.items[i].key>>
            /\ Cardinality({i \in DOMAIN trace :
                              trace[i].ch = "err" /\ trace[i].kind # "Total issues"})
                 = Cardinality(bad)

\* every optional part of the issue is absent: the attribute is not there, or
\* is None, or is an empty list or text
AllAbsent(issue) ==
    \A f \in OptionalFields :
        \/ f \notin issue.has
        \/ f \in issue.null
        \/ f \in SeqFields /\ issue[f] = <<>>

OptionalLabels ==
    {"**Priority:** ", "**Parent:** ", "**Brands:** ", "**Labels:** ", "**Creator:** ",
     "**Assignee:** ", "**Reporter:** ", "## Description\n\n", "### "}

\* C10: on a well-formed issue whose optional parts are all absent, print_issues
\* prints the row with 'Unassigned', 'N/A' and an empty labels cell, and
\* format_issue_as_markdown returns a document without the line of any
\* optional field; neither raises.
C10_AllAbsentRenders ==
    /\ (PrintIssuesRan /\ Len(args.items) = 1
        /\ WellFormed(args.items[1]) /\ AllAbsent(args.items[1])) =>
          LET tables == EventsOf("out", "table")
          IN  /\ result # "raised"
              /\ Len(tables) = 1
              /\ Len(tables[1].rows) = 1
              /\ tables[1].rows[1][4] = <<"Unassigned">>
              /\ tables[1].rows[1][6] = <<"N/A">>
              /\ tables[1].rows[1][8] = <<>>
    /\ (prog = "lib" /\ pc = "returned" /\ "markdown" \in DOMAIN locals
        /\ WellFormed(args) /\ AllAbsent(args)) =>
          /\ result = "markdown"
          /\ \A i \in DOMAIN locals.markdown : locals.markdown[i] \notin OptionalLabels

\* ---- C11 ----
\* the positions of the code markers of a description
Markers(d) == {i \in DOMAIN d : d[i] \in CodeOpen}

\* the markers pair up into blocks: first an opening marker, then {code}
WellPaired(d) ==
    /\ Cardinality(Markers(d)) % 2 = 0
    /\ \A k \in 1..Cardinality(Markers(d)) :
          k % 2 = 0 => d[NthOf(Markers(d), k)] = CodeClose

\* the description with its first k blocks fenced, up to the end of block k
RECURSIVE FencedUpTo(_, _)
FencedUpTo(d, k) ==
    IF k = 0 THEN <<>>
    ELSE LET o == NthOf(Markers(d), 2 * k - 1)
             c == NthOf(Markers(d), 2 * k)
             p == IF k = 1 THEN 0 ELSE NthOf(Markers(d), 2 * k - 2)
         IN  FencedUpTo(d, k - 1)
             \o SubSeq(d, p + 1, o - 1)
             \o <<Fence>> \o (IF d[o] = CodeClose THEN <<>> ELSE <<CodeLang(d[o])>>)
             \o <<"\n">> \o SubSeq(d, o + 1, c - 1) \o <<"\n", Fence>>

\* every block fenced, the text around the blocks as it was
Fenced(d) ==
    LET n == Cardinality(Markers(d)) \div 2
        last == IF n = 0 THEN 0 ELSE NthOf(Markers(d), 2 * n)
    IN  FencedUpTo(d, n) \o SubSeq(d, last + 1, Len(d))

\* the description as the returned document holds it
DescriptionSection(md) ==
    LET i == CHOOSE x \in DOMAIN md : md[x] = "## Description\n\n"
        j == CHOOSE x \in (i + 1)..Len(md) :
               md[x] = "\n\n" /\ \A y \in (i + 1)..(x - 1) : md[y] # "\n\n"
    IN  SubSeq(md, i + 1, j - 1)

\* format_issue_as_markdown returned a document for an issue with a description
DescriptionRendered ==
    /\ prog = "lib" /\ pc = "returned" /\ "markdown" \in DOMAIN locals
    /\ result = "markdown"
    /\ truthy(args, "description")

\* C11: when the code markers of the description pair up into blocks, the
\* document holds each block as a fenced block with the block's own language
\* and body, in the order of the description, and the text outside the blocks
\* unchanged.
C11_CodeBlocks ==
    (DescriptionRendered /\ WellPaired(args.description)) =>
        DescriptionSection(locals.markdown) = Fenced(args.description)

\* a description with two blocks of different languages and bodies
C11_Witness ==
    /\ DescriptionRendered
    /\ args.description = <<"{code:py}", "x", "{code}", "mid", "{code:js}", "y", "{code}">>
    /\ DescriptionSection(locals.markdown) =
         <<Fence, "py", "\n", "x", "\n", Fence, "mid", Fence, "js", "\n", "y", "\n", Fence>>

\* ---- C12 ----
\* the notice of a missing description, as deprecated/main.py words it
NoDescriptionNotice == "No description provided."

\* format_issue_as_markdown returned a document
DocumentReturned ==
    /\ prog = "lib" /\ pc = "returned" /\ "markdown" \in DOMAIN locals
    /\ result = "markdown"

\* the returned document holds the notice
HasNotice ==
    \E i \in DOMAIN locals.markdown : locals.markdown[i] = NoDescriptionNotice

\* C12: the document of an issue without a description (None or empty) holds
\* the 'no description' notice where the description section would be; the
\* document of an issue with a description does not hold it.
C12_NoDescriptionNotice ==
    DocumentReturned =>
        (HasNotice <=> ~truthy(args, "description"))

\* ---- C13 ----
\* the number of issues the server has for the query of a finished list run
ReturnedCount ==
    IF prog = "jirals" THEN locals.matching
    ELSE IF locals.resp.fail THEN 0 ELSE Len(locals.resp.items)

\* a list run for which the search has n >= 1 issues, all of them well-formed
ListWithIssues ==
    /\ ListRan("jirals") \/ ListRan("deprecated")
    /\ ReturnedCount >= 1
    /\ prog = "deprecated" =>
          \A i \in DOMAIN locals.resp.items : WellFormed(locals.resp.items[i])

\* C13: a list run whose search returns n >= 1 issues exits with 0, has printed
\* one table of n rows, row i being that of the i-th issue returned, and the
\* last thing it emitted is the count line with n.
C13_RowsAndCount ==
    ListWithIssues =>
        LET tables == SelectSeq(trace, LAMBDA e : e.kind = "table")
        IN  /\ exitCode = 0
            /\ Len(tables) = 1
            /\ Len(tables[1].rows) = ReturnedCount
            /\ prog = "deprecated" =>
                  \A i \in 1..ReturnedCount :
                      tables[1].rows[i][1] = <<locals.resp.items[i].key>>
            /\ trace[Len(trace)].kind = "Total issues"
            /\ trace[Len(trace)].n = ReturnedCount

\* ---- C14 ----
\* a jiracat run that read its configuration and arguments and has ended
ViewRan == prog = "jiracat" /\ pc = "done" /\ "view" \in DOMAIN args

BrowserEvents == SelectSeq(trace, LAMBDA e : e.ch = "browser")

RemoteEvents == SelectSeq(trace, LAMBDA e : e.ch = "remote")

\* the requests for an issue and the documents printed
FetchEvents == SelectSeq(trace, LAMBDA e : e.ch = "remote" /\ e.kind = "issue")

DocumentEvents == SelectSeq(trace, LAMBDA e : e.ch = "out" /\ e.kind = "markdown")

\* C14: with --view browser jiracat opens <server>/browse/<key>, once, and
\* exits with 0 having sent nothing to the server and printed no document;
\* with --view terminal it fetches the issue exactly once, prints the
\* document and opens no browser.
C14_BrowserOrTerminal ==
    /\ (ViewRan /\ args.view = "browser") =>
          /\ Len(BrowserEvents) = 1
          /\ BrowserEvents[1].text = <<args.server, "/browse/">> \o args.issue_key
          /\ exitCode = 0
          /\ RemoteEvents = <<>>
          /\ DocumentEvents = <<>>
    /\ (ViewRan /\ args.view = "terminal") =>
          /\ Len(FetchEvents) = 1
          /\ Len(DocumentEvents) = 1
          /\ BrowserEvents = <<>>

\* ---- C15 ----
PromptHeading == "JIRA credentials required:"

\* the events a step appends to the trace
Appended == SubSeq(trace', Len(trace) + 1, Len(trace'))

\* the number of calls of _prompt_credentials a sequence of events shows
Prompts(es) == Cardinality({k \in DOMAIN es : es[k].kind = PromptHeading})

\* the failed attempts that another attempt follows, with that attempt
FailedThenRetried ==
    {<<i, j>> \in (DOMAIN trace) \X (DOMAIN trace) :
        /\ trace[i].kind = "Failed to connect to JIRA"
        /\ i < j /\ trace[j].kind = "myself"
        /\ \A k \in (i + 1)..(j - 1) : trace[k].kind # "myself"}

Next ==
    \/ parse_jql_call
    \/ print_issues_call
    \/ jirals_start
    \/ JiraManager_init
    \/ JiraManager_connect
    \/ JiraManager_prompt_credentials
    \/ jirals_list
    \/ api_start
    \/ list_tickets
    \/ view_ticket
    \/ create_ticket
    \/ format_issue_as_markdown_call
    \/ jiracat_start
    \/ jiracat_view
    \/ deprecated_start
    \/ deprecated_list
    \/ deprecated_view
    \/ deprecated_create

Spec == Init /\ [][Next]_vars

====
